---- MODULE Spec2Model ----
(***************************************************************************)
(* Pet-shop catalog: the Pet entity (pets/models/pet_model.py) and the     *)
(* catalog routes of app.py.                                               *)
(*                                                                         *)
(* Python values are modelled with their dynamic type, because the code    *)
(* under study decides on truthiness and isinstance: a value is a record   *)
(* [t, n, s] where t is the type tag, n the number (ints, floats and bools *)
(* as 0/1) and s the characters of a string.                               *)
(***************************************************************************)
EXTENDS Integers, Sequences, FiniteSets, TLC

VARIABLES
    weight_in,   \* argument of a Pet.get_size call
    size_out,    \* what that call produced
    self,        \* the Pet object a validate() call runs on
    verdict,     \* what that validate() call produced
    pets,        \* rows of the 'pets' table (committed)
    last,        \* the last catalog operation: its arguments and its outcome
    calls,       \* the add_pet requests in flight, per client
    users,       \* rows of the 'users' table (committed)
    session,     \* per client, the user id its login session holds (0: none)
    reply,       \* the last account request: its arguments and its answer
    upstream,    \* what the image service does with this get_image request
    image_out    \* what that get_image call produced

vars == <<weight_in, size_out, self, verdict, pets, last, calls,
         users, session, reply, upstream, image_out>>

(***************************************************************************)
(* Python values                                                           *)
(***************************************************************************)
PyNone == [t |-> "none", n |-> 0, s |-> <<>>]
PyInt(i) == [t |-> "int", n |-> i, s |-> <<>>]
PyFloat(i) == [t |-> "float", n |-> i, s |-> <<>>]
PyBool(b) == [t |-> "bool", n |-> IF b THEN 1 ELSE 0, s |-> <<>>]
PyStr(chars) == [t |-> "str", n |-> 0, s |-> chars]

\* bool(v): None, 0, 0.0, False and "" are falsy
Truthy(v) ==
    CASE v.t = "none" -> FALSE
      [] v.t = "str" -> v.s # <<>>
      [] OTHER -> v.n # 0

\* the types Python orders against a number; anything else raises TypeError
IsNumeric(v) == v.t \in {"int", "float", "bool"}

\* str.strip(): drop the leading and the trailing whitespace characters
WhiteSpace == {" "}

RECURSIVE lstrip(_)
lstrip(chars) ==
    IF chars # <<>> /\ Head(chars) \in WhiteSpace THEN lstrip(Tail(chars)) ELSE chars

RECURSIVE rstrip(_)
rstrip(chars) ==
    IF chars # <<>> /\ chars[Len(chars)] \in WhiteSpace
    THEN rstrip(SubSeq(chars, 1, Len(chars) - 1))
    ELSE chars

strip(chars) == rstrip(lstrip(chars))

(***************************************************************************)
(* Outcomes of a call: a returned value or a raised exception              *)
(***************************************************************************)
Returned(v) == [exc |-> "none", msg |-> "", val |-> v]
Raised(e, m) == [exc |-> e, msg |-> m, val |-> PyNone]
NotCalled == [exc |-> "notcalled", msg |-> "", val |-> PyNone]

SMALL == PyStr(<<"S", "M", "A", "L", "L">>)
MEDIUM == PyStr(<<"M", "E", "D", "I", "U", "M">>)
LARGE == PyStr(<<"L", "A", "R", "G", "E">>)
XLARGE == PyStr(<<"X", "L", "A", "R", "G", "E">>)

(***************************************************************************)
(* Pet.get_size                                                            *)
(***************************************************************************)
get_size_strict(weight) ==
    IF ~IsNumeric(weight) THEN Raised("TypeError", "")
    ELSE IF weight.n >= 90 THEN Returned(XLARGE)
    ELSE IF weight.n >= 55 THEN Returned(LARGE)
    ELSE IF weight.n > 20 THEN Returned(MEDIUM)
    ELSE IF weight.n >= 0 THEN Returned(SMALL)
    ELSE Raised("ValueError", "Invalid weight")

get_size(weight) ==
    IF ~IsNumeric(weight) THEN Raised("TypeError", "")
    ELSE IF weight.n >= 90 THEN Returned(XLARGE)
    ELSE IF weight.n >= 55 THEN Returned(LARGE)
    ELSE IF weight.n >= 20 THEN Returned(MEDIUM)
    ELSE IF weight.n >= 0 THEN Returned(SMALL)
    ELSE Raised("ValueError", "Invalid weight")

(***************************************************************************)
(* The Pet object: one PyVal per attribute                                 *)
(***************************************************************************)
MkPet(name, age, breed, weight, kid_friendly, price, size) ==
    [name |-> name, age |-> age, breed |-> breed, weight |-> weight,
     kid_friendly |-> kid_friendly, price |-> price, size |-> size]

NoPet == MkPet(PyNone, PyNone, PyNone, PyNone, PyNone, PyNone, PyNone)

Built(obj) == [exc |-> "none", msg |-> "", obj |-> obj]
NotBuilt(e, m) == [exc |-> e, msg |-> m, obj |-> NoPet]

\* Pet.__init__: the size argument is accepted and dropped; get_size may raise
Pet__init__keeps_size(name, age, breed, weight, kid_friendly, price, size) ==
    LET derived == get_size(weight) IN
    IF derived.exc # "none" THEN NotBuilt(derived.exc, derived.msg)
    ELSE Built(MkPet(name, age, breed, weight, kid_friendly, price,
                     IF Truthy(size) THEN size ELSE derived.val))

Pet__init__(name, age, breed, weight, kid_friendly, price, size) ==
    LET derived == get_size(weight) IN
    IF derived.exc # "none" THEN NotBuilt(derived.exc, derived.msg)
    ELSE Built(MkPet(name, age, breed, weight, kid_friendly, price, derived.val))

(***************************************************************************)
(* Pet.validate.  `not x or x <= 0 or not isinstance(x, T)` is evaluated   *)
(* left to right: a falsy x is rejected, a truthy x that Python cannot     *)
(* order against 0 raises TypeError, then the sign and the type are tested.*)
(***************************************************************************)
MsgName == "Name must be a non-empty string."
MsgAge == "Age must be a positive integer."
MsgBreed == "Breed must be a non-empty string."
MsgWeight == "Weight must be a positive number."
MsgKid == "Kid-friendly must be 1 or 0."
MsgPrice == "Price must be a positive number."
MsgSize == "Size must be a non-empty string."

\* outcome of one `if` of validate: "pass", "reject" or "typeerror"
CheckStr(v) == IF ~Truthy(v) \/ v.t # "str" THEN "reject" ELSE "pass"

CheckPositive(v, types) ==
    IF ~Truthy(v) THEN "reject"
    ELSE IF ~IsNumeric(v) THEN "typeerror"
    ELSE IF v.n <= 0 \/ v.t \notin types THEN "reject"
    ELSE "pass"

IntTypes == {"int", "bool"}
NumberTypes == {"int", "float", "bool"}

CheckKid(v) == IF ~Truthy(v) \/ v.t # "bool" THEN "reject" ELSE "pass"

\* the checks of validate in source order, each with its message
Checks(obj) ==
    << <<CheckStr(obj.name), MsgName>>,
       <<CheckPositive(obj.age, IntTypes), MsgAge>>,
       <<CheckStr(obj.breed), MsgBreed>>,
       <<CheckPositive(obj.weight, NumberTypes), MsgWeight>>,
       <<CheckKid(obj.kid_friendly), MsgKid>>,
       <<CheckPositive(obj.price, NumberTypes), MsgPrice>>,
       <<CheckStr(obj.size), MsgSize>> >>

RECURSIVE RunChecks(_)
RunChecks(cs) ==
    IF cs = <<>> THEN Returned(PyNone)
    ELSE IF Head(cs)[1] = "reject" THEN Raised("ValueError", Head(cs)[2])
    ELSE IF Head(cs)[1] = "typeerror" THEN Raised("TypeError", "")
    ELSE RunChecks(Tail(cs))

validate(obj) == RunChecks(Checks(obj))

(***************************************************************************)
(* The 'pets' table behind db.session.  A row is a Pet object plus the     *)
(* primary key the store assigned.  The columns name, age, breed, weight,  *)
(* kid_friendly and price are NOT NULL, name and breed are UNIQUE, and the *)
(* table has no image column.                                              *)
(***************************************************************************)
MkRow(id, obj) ==
    [id |-> id, name |-> obj.name, age |-> obj.age, breed |-> obj.breed,
     weight |-> obj.weight, kid_friendly |-> obj.kid_friendly,
     price |-> obj.price, size |-> obj.size]

NoRow == MkRow(0, NoPet)

NotNullColumns(obj) ==
    /\ obj.name # PyNone /\ obj.age # PyNone /\ obj.breed # PyNone
    /\ obj.weight # PyNone /\ obj.kid_friendly # PyNone /\ obj.price # PyNone

UniqueColumns(rows, obj) ==
    \A r \in rows : r.name # obj.name /\ r.breed # obj.breed

\* db.session.add(pet); db.session.commit(): the INSERT either violates a
\* constraint (IntegrityError), fails in the store (fault) or adds the row
\* under the key id.  Nothing is written when it raises.
session_add_commit(rows, obj, id, fault) ==
    IF ~NotNullColumns(obj) \/ ~UniqueColumns(rows, obj)
    THEN [exc |-> "IntegrityError", rows |-> rows]
    ELSE IF fault THEN [exc |-> "SQLAlchemyError", rows |-> rows]
    ELSE [exc |-> "none", rows |-> rows \cup {MkRow(id, obj)}]

\* Pet.query.filter_by(name=...).first()
first_by_name(rows, chars) ==
    LET hits == {r \in rows : r.name = PyStr(chars)} IN
    IF hits = {} THEN {} ELSE {CHOOSE r \in hits : TRUE}

\* db.session.get(Pet, pet_id) / Pet.query.get(pet_id)
session_get(rows, pet_id) == {r \in rows : r.id = pet_id}

Found(row) == [exc |-> "none", msg |-> "", row |-> row]
NotFound(m) == [exc |-> "ValueError", msg |-> m, row |-> NoRow]

MsgNoId == "Pet with ID not found"
MsgNoName == "Pet with name not found"
MsgExists == "Pet with name already exists."
MsgBadPrice == "Price must be a positive number. Pets can't be free!"

\* Pet.get_pet_by_id
get_pet_by_id(rows, pet_id) ==
    LET hit == session_get(rows, pet_id) IN
    IF hit = {} THEN NotFound(MsgNoId) ELSE Found(CHOOSE r \in hit : TRUE)

\* Pet.get_pet_by_name: the argument is stripped before the lookup
get_pet_by_name(rows, name) ==
    LET hit == first_by_name(rows, strip(name)) IN
    IF hit = {} THEN NotFound(MsgNoName) ELSE Found(CHOOSE r \in hit : TRUE)

\* Pet.delete
delete_keeps_row(rows, pet_id, fault) ==
    LET hit == session_get(rows, pet_id) IN
    IF hit = {} THEN [exc |-> "ValueError", msg |-> MsgNoId, rows |-> rows]
    ELSE IF fault THEN [exc |-> "SQLAlchemyError", msg |-> "", rows |-> rows]
    ELSE [exc |-> "none", msg |-> "", rows |-> rows]

delete(rows, pet_id, fault) ==
    LET hit == session_get(rows, pet_id) IN
    IF hit = {} THEN [exc |-> "ValueError", msg |-> MsgNoId, rows |-> rows]
    ELSE IF fault THEN [exc |-> "SQLAlchemyError", msg |-> "", rows |-> rows]
    ELSE [exc |-> "none", msg |-> "", rows |-> rows \ hit]

\* Pet.update_price on the row a get_pet_by_id returned.  The comparison
\* new_price <= 0 comes first; None or a string there raises TypeError.
update_price_accepts_zero(rows, row, new_price, fault) ==
    IF ~IsNumeric(new_price) THEN [exc |-> "TypeError", msg |-> "", rows |-> rows]
    ELSE IF new_price.n < 0
    THEN [exc |-> "ValueError", msg |-> MsgBadPrice, rows |-> rows]
    ELSE IF fault THEN [exc |-> "SQLAlchemyError", msg |-> "", rows |-> rows]
    ELSE [exc |-> "none", msg |-> "",
          rows |-> (rows \ {row}) \cup {[row EXCEPT !.price = new_price]}]

update_price_no_rollback(rows, row, new_price, fault) ==
    IF ~IsNumeric(new_price) THEN [exc |-> "TypeError", msg |-> "", rows |-> rows]
    ELSE IF new_price.n <= 0
    THEN [exc |-> "ValueError", msg |-> MsgBadPrice, rows |-> rows]
    ELSE IF fault
    THEN [exc |-> "SQLAlchemyError", msg |-> "",
          rows |-> (rows \ {row}) \cup {[row EXCEPT !.price = new_price]}]
    ELSE [exc |-> "none", msg |-> "",
          rows |-> (rows \ {row}) \cup {[row EXCEPT !.price = new_price]}]

update_price_resets_size(rows, row, new_price, fault) ==
    IF ~IsNumeric(new_price) THEN [exc |-> "TypeError", msg |-> "", rows |-> rows]
    ELSE IF new_price.n <= 0
    THEN [exc |-> "ValueError", msg |-> MsgBadPrice, rows |-> rows]
    ELSE IF fault THEN [exc |-> "SQLAlchemyError", msg |-> "", rows |-> rows]
    ELSE [exc |-> "none", msg |-> "",
          rows |-> (rows \ {row})
                   \cup {[row EXCEPT !.price = new_price, !.size = PyNone]}]

update_price_accepts_negative(rows, row, new_price, fault) ==
    IF ~IsNumeric(new_price) THEN [exc |-> "TypeError", msg |-> "", rows |-> rows]
    ELSE IF new_price.n = 0
    THEN [exc |-> "ValueError", msg |-> MsgBadPrice, rows |-> rows]
    ELSE IF fault THEN [exc |-> "SQLAlchemyError", msg |-> "", rows |-> rows]
    ELSE [exc |-> "none", msg |-> "",
          rows |-> (rows \ {row}) \cup {[row EXCEPT !.price = new_price]}]

update_price(rows, row, new_price, fault) ==
    IF ~IsNumeric(new_price) THEN [exc |-> "TypeError", msg |-> "", rows |-> rows]
    ELSE IF new_price.n <= 0
    THEN [exc |-> "ValueError", msg |-> MsgBadPrice, rows |-> rows]
    ELSE IF fault THEN [exc |-> "SQLAlchemyError", msg |-> "", rows |-> rows]
    ELSE [exc |-> "none", msg |-> "",
          rows |-> (rows \ {row}) \cup {[row EXCEPT !.price = new_price]}]

(***************************************************************************)
(* Pet.create_pet.  A Python call binds its keywords to the parameters of  *)
(* the callee and raises TypeError when a keyword has no parameter or a    *)
(* required parameter gets no value.  create_pet declares five parameters  *)
(* and builds the Pet from the keywords name, weight, age, breed (age is   *)
(* written twice), while Pet.__init__ requires seven: the construction     *)
(* never completes, so validate, the existence check, the INSERT and the   *)
(* IntegrityError handler that follow it are not reached.  The TypeError   *)
(* is not a ValueError, so `except ValueError` lets it through.            *)
(***************************************************************************)
CreatePetParams == {"name", "breed", "age", "weight", "kid_friendly"}
PetInitParams == {"name", "age", "breed", "weight", "kid_friendly", "price", "size"}
PetInitKeywords == {"name", "weight", "age", "breed"}
AddPetKeywords == {"name", "breed", "age", "weight", "kid_friendly", "price", "image"}

Binds(keywords, params, required) ==
    keywords \subseteq params /\ required \subseteq keywords

create_pet(rows, keywords, data) ==
    IF ~Binds(keywords, CreatePetParams, CreatePetParams)
    THEN [exc |-> "TypeError", msg |-> "", rows |-> rows]
    ELSE IF ~Binds(PetInitKeywords, PetInitParams, PetInitParams)
    THEN [exc |-> "TypeError", msg |-> "", rows |-> rows]
    ELSE [exc |-> "unreached", msg |-> "", rows |-> rows]

(***************************************************************************)
(* The routes of app.py                                                    *)
(***************************************************************************)
Placeholder == <<"p">>   \* "https://example.com/placeholder.jpg"
ImageUrl == <<"u">>      \* the URL a successful lookup returned

\* add_pet: try get_image(breed), any exception gives the placeholder
add_pet_image(lookup) == IF lookup = "ok" THEN ImageUrl ELSE Placeholder

\* add_pet: all([name, age, breed, weight is not None,
\*               kid_friendly is not None, price is not None])
add_pet_all(data) ==
    /\ Truthy(data.name) /\ Truthy(data.age) /\ Truthy(data.breed)
    /\ data.weight # PyNone /\ data.kid_friendly # PyNone /\ data.price # PyNone

\* the except clauses of a route: ValueError answers `on_value`, anything
\* else 500
Status(exc, ok, on_value) ==
    CASE exc = "none" -> ok
      [] exc = "ValueError" -> on_value
      [] OTHER -> 500

(***************************************************************************)
(* Bounds and input domains                                                *)
(***************************************************************************)
MaxWeight == 95      \* get_size is tried on every integer weight up to here
MaxNegWeight == 3    \* ... and down to minus this
MaxNum == 1          \* validate is tried on the numbers -1 .. MaxNum
MaxId == 2           \* primary keys the store hands out: 1 .. MaxId
Clients == {1, 2}    \* concurrent add_pet requests

Bella == <<"B">>
BellaPadded == <<" ", "B", " ">>
Rex == <<"R">>
Beagle == <<"b">>
Lab == <<"l">>

IdleCall == [pc |-> "idle", body |-> "none", data |-> NoPet, lookup |-> "none",
             image |-> <<>>, raced |-> FALSE, exc |-> "none", msg |-> "",
             status |-> 0]

NoOp == [op |-> "none", body |-> "none", data |-> NoPet, id |-> 0, name |-> <<>>,
         price |-> PyNone, lookup |-> "none", image |-> <<>>, fault |-> FALSE,
         exc |-> "none", msg |-> "", status |-> 0, row |-> NoRow]

\* the parts of the state a specification does not use
SizeIdle == weight_in = PyNone /\ size_out = NotCalled
ValidateIdle == self = NoPet /\ verdict = NotCalled
CatalogIdle == pets = {} /\ last = NoOp
CallsIdle == calls = [c \in Clients |-> IdleCall]

NoReply == [op |-> "none", client |-> 0, body |-> "none", username |-> PyNone,
            password |-> PyNone, status |-> 0, after_logout |-> FALSE]

NoUpstream == [breed |-> <<>>, transport |-> "none", status_code |-> 0,
               json |-> "none", decode_error |-> "none", status |-> PyNone,
               message |-> PyNone]

AccountIdle == users = {} /\ session = [c \in Clients |-> 0] /\ reply = NoReply
FetchIdle == upstream = NoUpstream /\ image_out = NotCalled

(***************************************************************************)
(* Pet.get_size applied to every weight of the range                       *)
(***************************************************************************)
SizeInit ==
    /\ weight_in \in {PyInt(i) : i \in (0 - MaxNegWeight)..MaxWeight}
    /\ size_out = NotCalled
    /\ ValidateIdle /\ CatalogIdle /\ CallsIdle /\ AccountIdle /\ FetchIdle

GetSizeCall ==
    /\ size_out = NotCalled
    /\ size_out' = get_size(weight_in)
    /\ UNCHANGED <<weight_in, self, verdict, pets, last, calls,
                   users, session, reply, upstream, image_out>>

SizeNext == GetSizeCall

SizeSpec == SizeInit /\ [][SizeNext]_vars

(***************************************************************************)
(* Pet.validate applied to Pet objects of every shape                      *)
(***************************************************************************)
Numbers == {PyInt(i) : i \in (0 - 1)..MaxNum}
NameValues == {PyNone, PyStr(<<>>), PyStr(Bella), PyInt(5)}
AgeValues == Numbers \cup {PyNone, PyStr(<<"3">>), PyFloat(MaxNum)}
BreedValues == {PyNone, PyStr(<<>>), PyStr(Beagle)}
WeightValues == Numbers \cup {PyStr(<<"9">>), PyFloat(MaxNum)}
KidValues == {PyBool(TRUE), PyBool(FALSE), PyNone, PyInt(1), PyStr(<<"y", "e", "s">>)}
PriceValues == Numbers \cup {PyStr(<<"9">>)}
SizeValues == {PyNone, PyStr(<<>>), SMALL}

ValidateInit ==
    /\ self \in {MkPet(n, a, b, w, k, p, z) :
                    n \in NameValues, a \in AgeValues, b \in BreedValues,
                    w \in WeightValues, k \in KidValues, p \in PriceValues,
                    z \in SizeValues}
    /\ verdict = NotCalled
    /\ SizeIdle /\ CatalogIdle /\ CallsIdle /\ AccountIdle /\ FetchIdle

ValidateCall ==
    /\ verdict = NotCalled
    /\ verdict' = validate(self)
    /\ UNCHANGED <<weight_in, size_out, self, pets, last, calls,
                   users, session, reply, upstream, image_out>>

ValidateNext == ValidateCall

ValidateSpec == ValidateInit /\ [][ValidateNext]_vars

(***************************************************************************)
(* The catalog, one request at a time.  Rows enter the table the way the   *)
(* tests put them there (Pet(...), session.add, session.commit); the       *)
(* routes add_pet, get_pet, delete_pet and update_pet_price and the class  *)
(* methods create_pet and get_pet_by_name act on it.  `fault` is the store *)
(* raising SQLAlchemyError at the commit of a route.                       *)
(***************************************************************************)
Ids == 1..MaxId
FreeIds == Ids \ {r.id : r \in pets}

Float300 == PyFloat(300)
NameArgs == {Bella, BellaPadded, Rex}
BreedArgs == {Beagle, Lab}
SessionData ==
    {MkPet(PyStr(n), PyInt(3), PyStr(b), PyFloat(w), PyBool(TRUE), Float300, z) :
        n \in {Bella, Rex}, b \in BreedArgs, w \in {0 - 1, 10, 25},
        z \in {SMALL, LARGE}}
AddPetData ==
    {MkPet(PyStr(n), PyInt(3), PyStr(b), PyFloat(25), k, Float300, PyNone) :
        n \in NameArgs, b \in BreedArgs, k \in {PyBool(TRUE), PyBool(FALSE), PyNone}}
Lookups == {"ok", "timeout"}
NewPrices == {PyFloat(0 - 5), PyFloat(0), PyFloat(500), PyNone}

OtherIdle == SizeIdle /\ ValidateIdle /\ AccountIdle /\ FetchIdle

Init ==
    /\ pets = {}
    /\ last = NoOp
    /\ CallsIdle
    /\ OtherIdle

\* tests: pet = Pet(...); session.add(pet); session.commit()
PetSessionAdd ==
    \E data \in SessionData, id \in FreeIds :
        LET built == Pet__init__(data.name, data.age, data.breed, data.weight,
                                 data.kid_friendly, data.price, data.size)
            res == session_add_commit(pets, built.obj, id, FALSE)
            exc == IF built.exc # "none" THEN built.exc ELSE res.exc
        IN  /\ pets' = IF built.exc # "none" THEN pets ELSE res.rows
            /\ last' = [NoOp EXCEPT !.op = "session_add", !.data = data,
                                    !.exc = exc,
                                    !.id = IF exc = "none" THEN id ELSE 0,
                                    !.row = IF exc = "none"
                                            THEN MkRow(id, built.obj) ELSE NoRow]
            /\ UNCHANGED <<weight_in, size_out, self, verdict, calls,
                           users, session, reply, upstream, image_out>>

\* POST /api/pets
add_pet ==
    \E body \in {"empty", "object"} :
        IF body = "empty"
        THEN /\ last' = [NoOp EXCEPT !.op = "add_pet", !.body = body,
                                     !.msg = "Invalid JSON data", !.status = 400]
             /\ UNCHANGED <<weight_in, size_out, self, verdict, pets, calls,
                            users, session, reply, upstream, image_out>>
        ELSE \E data \in AddPetData, lookup \in Lookups :
            LET image == add_pet_image(lookup)
                res == create_pet(pets, AddPetKeywords, data)
            IN  IF ~add_pet_all(data)
                THEN /\ last' = [NoOp EXCEPT !.op = "add_pet", !.body = body,
                                             !.data = data, !.lookup = lookup,
                                             !.image = image,
                                             !.msg = "Missing required pet data",
                                             !.status = 400]
                     /\ UNCHANGED <<weight_in, size_out, self, verdict, pets, calls,
                                    users, session, reply, upstream, image_out>>
                ELSE /\ pets' = res.rows
                     /\ last' = [NoOp EXCEPT !.op = "add_pet", !.body = body,
                                             !.data = data, !.lookup = lookup,
                                             !.image = image, !.exc = res.exc,
                                             !.msg = res.msg,
                                             !.status = Status(res.exc, 201, 400)]
                     /\ UNCHANGED <<weight_in, size_out, self, verdict, calls,
                                    users, session, reply, upstream, image_out>>

\* Pet.create_pet(name, breed, age, weight, kid_friendly) called directly
create_pet_call ==
    \E data \in AddPetData :
        LET res == create_pet(pets, CreatePetParams, data)
        IN  /\ pets' = res.rows
            /\ last' = [NoOp EXCEPT !.op = "create_pet", !.data = data,
                                    !.exc = res.exc, !.msg = res.msg]
            /\ UNCHANGED <<weight_in, size_out, self, verdict, calls,
                           users, session, reply, upstream, image_out>>

\* GET /api/get-pet-by-id/<id>: Pet.get_pet_by_id, then the JSON is built
\* from the row; reading pet.image raises AttributeError (no such column)
get_pet ==
    \E pet_id \in Ids :
        LET res == get_pet_by_id(pets, pet_id)
            exc == IF res.exc = "none" THEN "AttributeError" ELSE res.exc
        IN  /\ last' = [NoOp EXCEPT !.op = "get_pet", !.id = pet_id,
                                    !.exc = exc, !.msg = res.msg, !.row = res.row,
                                    !.status = Status(exc, 200, 404)]
            /\ UNCHANGED <<weight_in, size_out, self, verdict, pets, calls,
                           users, session, reply, upstream, image_out>>

\* Pet.get_pet_by_name(name)
get_pet_by_name_call ==
    \E name \in NameArgs :
        LET res == get_pet_by_name(pets, name)
        IN  /\ last' = [NoOp EXCEPT !.op = "get_pet_by_name", !.name = name,
                                    !.exc = res.exc, !.msg = res.msg,
                                    !.row = res.row]
            /\ UNCHANGED <<weight_in, size_out, self, verdict, pets, calls,
                           users, session, reply, upstream, image_out>>

\* DELETE /api/delete-pet/<id>
delete_pet ==
    \E pet_id \in Ids, fault \in BOOLEAN :
        LET res == delete(pets, pet_id, fault)
        IN  /\ pets' = res.rows
            /\ last' = [NoOp EXCEPT !.op = "delete_pet", !.id = pet_id,
                                    !.fault = fault, !.exc = res.exc,
                                    !.msg = res.msg,
                                    !.status = Status(res.exc, 200, 404)]
            /\ UNCHANGED <<weight_in, size_out, self, verdict, calls,
                           users, session, reply, upstream, image_out>>

\* PUT /api/update-price/<id>/price
update_pet_price ==
    \E pet_id \in Ids, body \in {"nokey", "object"} :
        IF body = "nokey"
        THEN /\ last' = [NoOp EXCEPT !.op = "update_pet_price", !.body = body,
                                     !.id = pet_id,
                                     !.msg = "Invalid JSON data or missing new_price",
                                     !.status = 400]
             /\ UNCHANGED <<weight_in, size_out, self, verdict, pets, calls,
                            users, session, reply, upstream, image_out>>
        ELSE \E new_price \in NewPrices, fault \in BOOLEAN :
            LET got == get_pet_by_id(pets, pet_id)
                res == IF got.exc # "none"
                       THEN [exc |-> got.exc, msg |-> got.msg, rows |-> pets]
                       ELSE update_price(pets, got.row, new_price, fault)
            IN  /\ pets' = res.rows
                /\ last' = [NoOp EXCEPT !.op = "update_pet_price", !.body = body,
                                        !.id = pet_id, !.price = new_price,
                                        !.fault = fault, !.exc = res.exc,
                                        !.msg = res.msg, !.row = got.row,
                                        !.status = Status(res.exc, 200, 400)]
                /\ UNCHANGED <<weight_in, size_out, self, verdict, calls,
                               users, session, reply, upstream, image_out>>

Next ==
    \/ PetSessionAdd
    \/ add_pet
    \/ create_pet_call
    \/ get_pet
    \/ get_pet_by_name_call
    \/ delete_pet
    \/ update_pet_price

Spec == Init /\ [][Next]_vars

(***************************************************************************)
(* Two clients posting to /api/pets at the same time.  Each request runs   *)
(* add_pet up to the call of Pet.create_pet, then the call; the call is    *)
(* the only place where a request touches the table, so that is where the  *)
(* requests interleave.  `raced` records that the other request was in     *)
(* flight while this one was.                                              *)
(***************************************************************************)
RaceInit ==
    /\ pets = {}
    /\ last = NoOp
    /\ CallsIdle
    /\ OtherIdle

InFlight(c) == calls[c].pc = "create"

add_pet_begin(c) ==
    /\ calls[c].pc \in {"idle", "done"}
    /\ \E body \in {"empty", "object"}, data \in AddPetData, lookup \in Lookups :
        LET others == {d \in Clients \ {c} : InFlight(d)}
            req == [IdleCall EXCEPT !.body = body]
            mine ==
                IF body = "empty"
                THEN [req EXCEPT !.pc = "done", !.msg = "Invalid JSON data",
                                 !.status = 400]
                ELSE IF ~add_pet_all(data)
                THEN [req EXCEPT !.pc = "done", !.data = data, !.lookup = lookup,
                                 !.image = add_pet_image(lookup),
                                 !.msg = "Missing required pet data",
                                 !.status = 400]
                ELSE [req EXCEPT !.pc = "create", !.data = data, !.lookup = lookup,
                                 !.image = add_pet_image(lookup),
                                 !.raced = others # {}]
        IN  calls' = [d \in Clients |->
                        IF d = c THEN mine
                        ELSE IF d \in others /\ mine.pc = "create"
                        THEN [calls[d] EXCEPT !.raced = TRUE]
                        ELSE calls[d]]
    /\ UNCHANGED <<weight_in, size_out, self, verdict, pets, last,
                   users, session, reply, upstream, image_out>>

add_pet_create(c) ==
    /\ InFlight(c)
    /\ LET res == create_pet(pets, AddPetKeywords, calls[c].data)
       IN  /\ pets' = res.rows
           /\ calls' = [calls EXCEPT ![c].pc = "done", ![c].exc = res.exc,
                                     ![c].msg = res.msg,
                                     ![c].status = Status(res.exc, 201, 400)]
    /\ UNCHANGED <<weight_in, size_out, self, verdict, last,
                   users, session, reply, upstream, image_out>>

RaceNext == \E c \in Clients : add_pet_begin(c) \/ add_pet_create(c)

RaceSpec == RaceInit /\ [][RaceNext]_vars

(***************************************************************************)
(* Accounts and login sessions (app.py, User Management).  The Users model *)
(* (pets/models/user_model.py) is not part of the source tree: its three   *)
(* methods are taken from the specification of the User Account Service.   *)
(* A password hash is the pair of its salt and the plaintext it was made   *)
(* from: two hashes are equal exactly when both are.                       *)
(***************************************************************************)
Alice == <<"a">>
Bob == <<"o">>
Secret == <<"s">>
Other == <<"t">>
Salts == {1, 2}

MkUser(id, username, salt, password) ==
    [id |-> id, username |-> username, salt |-> salt, password |-> password]

hash_password(salt, password) == [salt |-> salt, of |-> password]

\* Users.query.filter_by(username=username).first()
first_by_username(rows, username) == {u \in rows : u.username = username}

\* Users.create_user(username, password)
Users_create_user(rows, username, password, salt) ==
    IF first_by_username(rows, username) # {}
    THEN [exc |-> "ValueError", users |-> rows]
    ELSE [exc |-> "none",
          users |-> rows \cup {MkUser(Cardinality(rows) + 1, username, salt,
                                      hash_password(salt, password))}]

\* user.verify_password(password)
verify_password(user, password) ==
    hash_password(user.salt, password) = user.password

\* Users.update_password(username, new_password)
Users_update_password(rows, username, new_password, salt) ==
    IF first_by_username(rows, username) = {}
    THEN [exc |-> "ValueError", users |-> rows]
    ELSE [exc |-> "none",
          users |-> {IF u.username = username
                     THEN [u EXCEPT !.salt = salt,
                                    !.password = hash_password(salt, new_password)]
                     ELSE u : u \in rows}]

\* load_user: the row the session's user id names, if there is one
load_user(rows, user_id) == {u \in rows : u.id = user_id}

\* @login_required: current_user.is_authenticated
login_required(rows, user_id) == load_user(rows, user_id) # {}

\* login_user(user) / logout_user(): what the session holds afterwards
login_user(user) == user.id
logout_user == 0

Answer(status, rows, user_id) ==
    [status |-> status, users |-> rows, session |-> user_id]

\* POST /api/create-user
create_user(rows, user_id, body, username, password, salt) ==
    IF body = "null" THEN Answer(500, rows, user_id)
    ELSE IF ~Truthy(username) \/ ~Truthy(password)
    THEN Answer(400, rows, user_id)
    ELSE LET res == Users_create_user(rows, username.s, password.s, salt) IN
         Answer(Status(res.exc, 201, 400), res.users, user_id)

login_ignores_password(rows, user_id, body, username, password) ==
    IF body = "null" THEN Answer(500, rows, user_id)
    ELSE IF ~Truthy(username) \/ ~Truthy(password)
    THEN Answer(400, rows, user_id)
    ELSE LET found == first_by_username(rows, username.s) IN
         IF found = {} THEN Answer(404, rows, user_id)
         ELSE LET user == CHOOSE u \in found : TRUE IN
              Answer(200, rows, login_user(user))

\* POST /api/login
login(rows, user_id, body, username, password) ==
    IF body = "null" THEN Answer(500, rows, user_id)
    ELSE IF ~Truthy(username) \/ ~Truthy(password)
    THEN Answer(400, rows, user_id)
    ELSE LET found == first_by_username(rows, username.s) IN
         IF found = {} THEN Answer(404, rows, user_id)
         ELSE LET user == CHOOSE u \in found : TRUE IN
              IF verify_password(user, password.s)
              THEN Answer(200, rows, login_user(user))
              ELSE Answer(401, rows, user_id)

\* POST /api/logout
logout(rows, user_id) ==
    IF ~login_required(rows, user_id) THEN Answer(401, rows, user_id)
    ELSE Answer(200, rows, logout_user)

\* POST /api/change-password
change_password(rows, user_id, body, new_password, salt) ==
    IF ~login_required(rows, user_id) THEN Answer(401, rows, user_id)
    ELSE IF body = "null" THEN Answer(500, rows, user_id)
    ELSE IF ~Truthy(new_password) THEN Answer(400, rows, user_id)
    ELSE LET current_user == CHOOSE u \in load_user(rows, user_id) : TRUE
             res == Users_update_password(rows, current_user.username,
                                          new_password.s, salt)
         IN  Answer(Status(res.exc, 200, 400), res.users, user_id)

Bodies == {"null", "object"}
UsernameArgs == {PyNone, PyStr(Alice), PyStr(Bob)}
PasswordArgs == {PyStr(<<>>), PyStr(Secret), PyStr(Other)}

\* the request before this one was a logout of this client, answered 200
AfterLogout(c) ==
    reply.op = "logout" /\ reply.client = c /\ reply.status = 200

\* one request of client c, answered with `ans`
Answered(c, op, body, username, password, ans) ==
    /\ users' = ans.users
    /\ session' = [session EXCEPT ![c] = ans.session]
    /\ reply' = [op |-> op, client |-> c, body |-> body, username |-> username,
                 password |-> password, status |-> ans.status,
                 after_logout |-> AfterLogout(c)]
    /\ UNCHANGED <<weight_in, size_out, self, verdict, pets, last, calls,
                   upstream, image_out>>

AccountInit ==
    /\ users = {}
    /\ session = [c \in Clients |-> 0]
    /\ reply = NoReply
    /\ SizeIdle /\ ValidateIdle /\ CatalogIdle /\ CallsIdle /\ FetchIdle

\* a request body is JSON null, or an object with these two values
Posted(body, a, b) ==
    \/ body = "null" /\ a = PyNone /\ b = PyNone
    \/ body = "object" /\ a \in UsernameArgs /\ b \in PasswordArgs

CreateUserRequest(c) ==
    \E body \in Bodies :
      \E username \in UsernameArgs, password \in PasswordArgs \cup {PyNone} :
        /\ Posted(body, username, password)
        /\ \E salt \in Salts :
            Answered(c, "create_user", body, username, password,
                     create_user(users, session[c], body, username, password,
                                 salt))

LoginRequest(c) ==
    \E body \in Bodies :
      \E username \in UsernameArgs, password \in PasswordArgs \cup {PyNone} :
        /\ Posted(body, username, password)
        /\ Answered(c, "login", body, username, password,
                    login(users, session[c], body, username, password))

LogoutRequest(c) ==
    Answered(c, "logout", "none", PyNone, PyNone, logout(users, session[c]))

ChangePasswordRequest(c) ==
    \E body \in Bodies :
      \E new_password \in PasswordArgs \cup {PyNone} :
        /\ Posted(body, PyNone, new_password)
        /\ \E salt \in Salts :
            Answered(c, "change_password", body, PyNone, new_password,
                     change_password(users, session[c], body, new_password,
                                     salt))

AccountNext ==
    \E c \in Clients :
        \/ CreateUserRequest(c)
        \/ LoginRequest(c)
        \/ LogoutRequest(c)
        \/ ChangePasswordRequest(c)

AccountSpec == AccountInit /\ [][AccountNext]_vars

(***************************************************************************)
(* get_image (pets/utils/api_utils.py).  `upstream` is what the image      *)
(* service does with the request: whether the transport delivers a         *)
(* response, its HTTP status code, and its body (not JSON, a JSON list, or *)
(* a JSON object with these "status" and "message" members).  Which class  *)
(* response.json() raises on a body that is not JSON depends on the        *)
(* installed requests: a RequestException (2.27 and later) or a plain      *)
(* ValueError (before).                                                    *)
(***************************************************************************)
Success == <<"s">>
Failure == <<"f">>
Url == <<"u">>
UrlPadded == <<" ", "u", " ">>
Blank == <<" ">>

\* a member the JSON object does not have
Missing == [t |-> "missing", n |-> 0, s |-> <<>>]

MsgTimedOut == "Request to dog api timed out."
MsgFailed == "Request to dog api failed"
MsgApiError == "Dog API returned error"
MsgInvalid == "Invalid response from dog api"
MsgNotJson == "Expecting value"
MsgNoAttribute == "object has no attribute"

\* dict.get(key, default)
dict_get(member, default) == IF member = Missing THEN default ELSE member

\* response.raise_for_status() raises HTTPError
HttpError(status_code) == status_code >= 400

\* get_image(breed), the service answering as `up` says
get_image(breed, up) ==
    IF up.transport = "Timeout" THEN Raised("RuntimeError", MsgTimedOut)
    ELSE IF up.transport # "ok" THEN Raised("RuntimeError", MsgFailed)
    ELSE IF up.json = "invalid"
    THEN IF up.decode_error = "RequestException"
         THEN Raised("RuntimeError", MsgFailed)
         ELSE Raised("ValueError", MsgNotJson)
    ELSE IF HttpError(up.status_code) THEN Raised("RuntimeError", MsgFailed)
    ELSE IF up.json = "list" THEN Raised("AttributeError", MsgNoAttribute)
    ELSE IF dict_get(up.status, PyNone) # PyStr(Success)
    THEN Raised("Exception", MsgApiError)
    ELSE LET message == dict_get(up.message, PyStr(<<>>)) IN
         IF message.t # "str" THEN Raised("AttributeError", MsgNoAttribute)
         ELSE Returned(PyStr(strip(message.s)))

Transports == {"ok", "Timeout", "ConnectionError"}
StatusCodes == {200, 404, 500}
JsonBodies == {"invalid", "list", "object"}
DecodeErrors == {"RequestException", "ValueError"}
StatusMembers == {Missing, PyStr(Success), PyStr(Failure)}
MessageMembers == {Missing, PyNone, PyInt(1), PyStr(<<>>), PyStr(Blank),
                   PyStr(Url), PyStr(UrlPadded)}

FetchInit ==
    /\ upstream \in [breed : {Beagle, Lab}, transport : Transports,
                     status_code : StatusCodes, json : JsonBodies,
                     decode_error : DecodeErrors, status : StatusMembers,
                     message : MessageMembers]
    /\ image_out = NotCalled
    /\ SizeIdle /\ ValidateIdle /\ CatalogIdle /\ CallsIdle /\ AccountIdle

GetImageCall ==
    /\ image_out = NotCalled
    /\ image_out' = get_image(upstream.breed, upstream)
    /\ UNCHANGED <<weight_in, size_out, self, verdict, pets, last, calls,
                   users, session, reply, upstream>>

FetchNext == GetImageCall

FetchSpec == FetchInit /\ [][FetchNext]_vars

(***************************************************************************)
(* Properties of get_size and validate                                     *)
(***************************************************************************)

\* C1: get_size(w) is SMALL iff 0 <= w < 20, MEDIUM iff 20 <= w < 55, LARGE
\* iff 55 <= w < 90, XLARGE iff w >= 90, and raises ValueError iff w < 0.
C1_SizeClassification ==
    size_out # NotCalled =>
        LET w == weight_in.n IN
        /\ (size_out = Returned(SMALL)) <=> (0 <= w /\ w < 20)
        /\ (size_out = Returned(MEDIUM)) <=> (20 <= w /\ w < 55)
        /\ (size_out = Returned(LARGE)) <=> (55 <= w /\ w < 90)
        /\ (size_out = Returned(XLARGE)) <=> (w >= 90)
        /\ (size_out.exc = "ValueError") <=> (w < 0)

C1_Witness == weight_in = PyInt(20) /\ size_out = Returned(MEDIUM)

\* the field rules as the specification words them
RuleName(v) == v.t = "str" /\ v.s # <<>>
RuleAge(v) == v.t = "int" /\ v.n > 0
RuleBreed(v) == v.t = "str" /\ v.s # <<>>
RuleWeight(v) == v.t \in {"int", "float"} /\ v.n > 0
RuleKid(v) == v.t = "bool"
RulePrice(v) == v.t \in {"int", "float"} /\ v.n > 0
RuleSize(v) == v.t = "str" /\ v.s # <<>>

Rules(obj) ==
    << <<RuleName(obj.name), MsgName>>, <<RuleAge(obj.age), MsgAge>>,
       <<RuleBreed(obj.breed), MsgBreed>>, <<RuleWeight(obj.weight), MsgWeight>>,
       <<RuleKid(obj.kid_friendly), MsgKid>>, <<RulePrice(obj.price), MsgPrice>>,
       <<RuleSize(obj.size), MsgSize>> >>

Violated(obj) == {i \in 1..7 : ~Rules(obj)[i][1]}
FirstViolated(obj) == CHOOSE i \in Violated(obj) : \A j \in Violated(obj) : i <= j

\* C8: a Pet whose kid_friendly is the boolean False and whose other fields
\* are valid passes validate.
C8_FalseIsValid ==
    (/\ verdict # NotCalled
     /\ self.kid_friendly = PyBool(FALSE)
     /\ Violated(self) = {})
        => verdict = Returned(PyNone)

\* C9: validate succeeds iff no field violates its rule, and otherwise raises
\* the ValueError of the first violated field in the order name, age, breed,
\* weight, kid_friendly, price, size.
C9_FirstViolationReported ==
    verdict # NotCalled =>
        IF Violated(self) = {}
        THEN verdict = Returned(PyNone)
        ELSE verdict = Raised("ValueError", Rules(self)[FirstViolated(self)][2])

(***************************************************************************)
(* Properties of the catalog                                               *)
(***************************************************************************)

AddOps == {"add_pet", "create_pet"}
Trimmed(data) == PyStr(strip(data.name.s))
FieldsValid(data) ==
    /\ data.name.t = "str" /\ data.breed.t = "str"
    /\ Violated([data EXCEPT !.name = Trimmed(data),
                             !.breed = PyStr(strip(data.breed.s)),
                             !.size = SMALL]) = {}
ValidAdd(op) ==
    /\ op.op \in AddOps
    /\ op.op = "add_pet" => op.body = "object"
    /\ FieldsValid(op.data)
NameTaken(rows, data) == \E r \in rows : r.name = Trimmed(data)

\* C3: AddPet with valid fields and a name that, trimmed, is already in the
\* catalog fails with AlreadyExists (the ValueError "already exists") and
\* leaves the catalog unchanged.
C3_DuplicateNameIsAlreadyExists ==
    [][(ValidAdd(last') /\ NameTaken(pets, last'.data))
          => (/\ last'.exc = "ValueError" /\ last'.msg = MsgExists
              /\ pets' = pets)]_vars

\* C4: AddPet with valid fields and a trimmed name not in the catalog
\* succeeds, adds exactly one row, and get_pet_by_name of that name (padded
\* or not) then returns that row; a breed already in the catalog is no
\* obstacle.
C4_NewNameIsCreated ==
    [][(ValidAdd(last') /\ ~NameTaken(pets, last'.data))
          => (/\ last'.exc = "none"
              /\ \E r \in pets' :
                    /\ r \notin pets /\ pets' = pets \cup {r}
                    /\ r.name = Trimmed(last'.data)
                    /\ get_pet_by_name(pets', last'.data.name.s) = Found(r))]_vars

\* C5: delete_pet of an id in the catalog removes that row and no other,
\* and get_pet of an id that is not in the catalog answers not found;
\* delete_pet of an id not in the catalog fails with not found and changes
\* nothing.
C5_DeleteRemovesThatPet ==
    [][/\ last'.op = "delete_pet" =>
            IF session_get(pets, last'.id) # {}
            THEN ~last'.fault =>
                    /\ last'.exc = "none"
                    /\ pets' = pets \ session_get(pets, last'.id)
                    /\ Cardinality(pets') = Cardinality(pets) - 1
                    /\ get_pet_by_id(pets', last'.id) = NotFound(MsgNoId)
            ELSE /\ last'.exc = "ValueError" /\ last'.msg = MsgNoId
                 /\ pets' = pets
       /\ (last'.op = "get_pet" /\ session_get(pets, last'.id) = {}) =>
            (last'.exc = "ValueError" /\ last'.msg = MsgNoId /\ last'.row = NoRow)
      ]_vars

C5_Witness ==
    /\ last.op = "delete_pet" /\ last.exc = "none"
    /\ pets # {}
    /\ session_get(pets, last.id) = {}

\* C6: update_pet_price of a pet in the catalog with a price <= 0 fails with
\* the ValueError of the price and changes nothing; with a price > 0 it
\* succeeds and the row read back by id carries the new price.
C6_UpdatePriceChecksSign ==
    [][/\ (/\ last'.op = "update_pet_price" /\ last'.body = "object"
           /\ session_get(pets, last'.id) # {}
           /\ IsNumeric(last'.price)) =>
            IF last'.price.n <= 0
            THEN /\ last'.exc = "ValueError" /\ last'.msg = MsgBadPrice
                 /\ pets' = pets
            ELSE ~last'.fault =>
                    /\ last'.exc = "none"
                    /\ get_pet_by_id(pets', last'.id).exc = "none"
                    /\ get_pet_by_id(pets', last'.id).row.price = last'.price
       /\ (last'.op = "get_pet" /\ session_get(pets, last'.id) # {}) =>
            (last'.row \in pets /\ last'.row.id = last'.id)
      ]_vars

C6_Witness ==
    /\ last.op = "update_pet_price" /\ last.row \in pets
    /\ last.price = PyFloat(0)
    /\ last.exc = "ValueError"

\* C7: in an AddPet with valid fields and a new name the pet is stored
\* whatever the image lookup did, with the placeholder as its image when the
\* lookup failed and the returned URL when it succeeded.
C7_LookupFailureStoresPlaceholder ==
    [][(/\ last'.op = "add_pet" /\ ValidAdd(last')
        /\ ~NameTaken(pets, last'.data))
          => \E r \in pets' \ pets :
                /\ r.name = Trimmed(last'.data)
                /\ "image" \in DOMAIN r
                /\ r.image = IF last'.lookup = "ok" THEN ImageUrl ELSE Placeholder
      ]_vars

\* C10: when two add_pet requests with valid fields and the same trimmed
\* name were in flight together and both have answered, exactly one row
\* carries that name, one request created it and the other failed with
\* AlreadyExists; and no two rows of the table ever share a name.
C10_RaceLeavesOneWinner ==
    /\ \A r1, r2 \in pets : r1.name = r2.name => r1 = r2
    /\ \A c, d \in Clients :
        (/\ c # d
         /\ calls[c].pc = "done" /\ calls[d].pc = "done"
         /\ calls[c].raced /\ calls[d].raced
         /\ FieldsValid(calls[c].data) /\ FieldsValid(calls[d].data)
         /\ Trimmed(calls[c].data) = Trimmed(calls[d].data))
            => /\ Cardinality({r \in pets : r.name = Trimmed(calls[c].data)}) = 1
               /\ \/ calls[c].exc = "none" /\ calls[d].exc = "ValueError"
                     /\ calls[d].msg = MsgExists
                  \/ calls[d].exc = "none" /\ calls[c].exc = "ValueError"
                     /\ calls[c].msg = MsgExists

\* the commit of the request was reached: the pet exists and, for an update,
\* the new price passed the sign check
CommitReached(rows, op) ==
    /\ session_get(rows, op.id) # {}
    /\ \/ op.op = "delete_pet"
       \/ /\ op.op = "update_pet_price" /\ op.body = "object"
          /\ IsNumeric(op.price) /\ op.price.n > 0

\* C11: when the store fails at the commit of delete_pet or update_pet_price
\* the request ends in the store's error (HTTP 500) and the table is what it
\* was before the request; an add_pet or create_pet that raises leaves the
\* table as it was, too.
C11_FailedCommitChangesNothing ==
    [][/\ (last'.fault /\ CommitReached(pets, last')) =>
            (/\ last'.exc = "SQLAlchemyError" /\ last'.status = 500
             /\ pets' = pets)
       /\ (last'.op \in AddOps /\ last'.exc # "none") => pets' = pets
      ]_vars

C11_Witness ==
    /\ last.op = "update_pet_price" /\ last.fault
    /\ last.exc = "SQLAlchemyError"
    /\ last.row \in pets /\ last.row.price # last.price

\* C12: a get_pet, delete_pet or update_pet_price request for an id that is
\* not in the catalog is answered 404, and an update_pet_price with a
\* non-positive price for a pet in the catalog is answered 400.
C12_AbsentIdIs404 ==
    [][/\ (/\ last'.op \in {"get_pet", "delete_pet", "update_pet_price"}
           /\ last'.op = "update_pet_price" =>
                (/\ last'.body = "object" /\ IsNumeric(last'.price)
                 /\ last'.price.n > 0)
           /\ session_get(pets, last'.id) = {})
            => (last'.exc = "ValueError" /\ last'.status = 404)
       /\ (/\ last'.op = "update_pet_price" /\ last'.body = "object"
           /\ IsNumeric(last'.price) /\ last'.price.n <= 0
           /\ session_get(pets, last'.id) # {})
            => last'.status = 400
      ]_vars

\* C15: a successful update_pet_price changes the price of the pet with that
\* id and nothing else: the other fields of that row, every other row and the
\* set of ids are as before.
C15_UpdatePriceFrame ==
    [][(last'.op = "update_pet_price" /\ last'.status = 200) =>
        /\ {r.id : r \in pets'} = {r.id : r \in pets}
        /\ \A r \in pets : \E q \in pets' :
            /\ q.id = r.id
            /\ IF r.id = last'.id
               THEN q = [r EXCEPT !.price = last'.price]
               ELSE q = r
      ]_vars

C15_Witness ==
    /\ last.op = "update_pet_price" /\ last.status = 200
    /\ Cardinality(pets) = 2
    /\ last.row.price # last.price
    /\ [last.row EXCEPT !.price = last.price] \in pets

\* C16: every row of the table has a non-empty name and breed, age > 0,
\* weight > 0 and price > 0, ids are pairwise distinct, and a request that
\* ends in a ValueError leaves the table as it was.
RowValid(r) ==
    /\ RuleName(r.name) /\ RuleBreed(r.breed) /\ RuleAge(r.age)
    /\ RuleWeight(r.weight) /\ RulePrice(r.price)

C16_RowsStayValid ==
    [][/\ \A r \in pets' : RowValid(r)
       /\ \A r1, r2 \in pets' : r1.id = r2.id => r1 = r2
       /\ last'.exc = "ValueError" => pets' = pets
      ]_vars

C16_Witness ==
    /\ last.op = "update_pet_price" /\ last.exc = "ValueError"
    /\ last.row \in pets /\ last.price.n < 0
    /\ Cardinality(pets) = 2


(***************************************************************************)
(* Properties of the login session                                         *)
(***************************************************************************)
Authenticated(rows, sess, c) == \E u \in rows : u.id = sess[c]

\* the stored row of that username has the hash of that password
Credentials(rows, username, password) ==
    /\ username.t = "str" /\ password.t = "str"
    /\ \E u \in rows : /\ u.username = username.s
                       /\ u.password = hash_password(u.salt, password.s)

KnownUser(rows, username) ==
    username.t = "str" /\ \E u \in rows : u.username = username.s

SuccessPayload(up) ==
    /\ up.transport = "ok" /\ ~HttpError(up.status_code)
    /\ up.json = "object" /\ up.status = PyStr(Success)

\* ... and its message is a string with something in it
UsableUrl(up) == up.message.t = "str" /\ strip(up.message.s) # <<>>

\* C14: get_image returns the URL of the response when the service answers
\* with a success payload that carries a usable URL; raises the timed-out
\* error on a timeout; raises the request-failed error on any other
\* transport error and on an HTTP error status; raises the invalid-response
\* error when a success payload carries no usable URL; and never returns an
\* empty URL.
C14_FetchImageOutcomes ==
    image_out # NotCalled =>
        /\ (SuccessPayload(upstream) /\ UsableUrl(upstream))
              => image_out = Returned(PyStr(strip(upstream.message.s)))
        /\ upstream.transport = "Timeout"
              => image_out = Raised("RuntimeError", MsgTimedOut)
        /\ (\/ upstream.transport = "ConnectionError"
            \/ upstream.transport = "ok" /\ HttpError(upstream.status_code))
              => image_out = Raised("RuntimeError", MsgFailed)
        /\ (SuccessPayload(upstream) /\ ~UsableUrl(upstream))
              => image_out = Raised("ValueError", MsgInvalid)
        /\ image_out.exc = "none" => image_out.val # PyStr(<<>>)

====
